---- MODULE Spec2Model ----
(***************************************************************************)
(* Crawl orchestration of ai-llmstxt-generator (src/app/api/crawl/route.ts) *)
(* as a state machine: the POST/GET handlers, crawlSite, the concurrent     *)
(* crawlSinglePage tasks of a batch, the emitter sendUpdate and the URL     *)
(* canonicalizer.  JavaScript runs one task at a time and switches tasks    *)
(* only at an await, so every action below is the code between two awaits.  *)
(***************************************************************************)
EXTENDS Integers, Sequences, FiniteSets, Bags, TLC

(***************************************************************************)
(* Strings.  A URL string is a sequence of tokens: a scheme token, a host   *)
(* token, then "/" and path-segment tokens, "?" with parameter tokens       *)
(* separated by "&", and "#" with the tokens of the fragment.               *)
(***************************************************************************)
Schemes == {"https://", "http://"}
Hosts == {"h", "o", "localhost", "n", "s", "l"}
StopTokens == {"?", "#"}

\* the tracking parameters enhancedNormalizeUrl deletes (tokens are name=value)
paramsToRemove == {"utm_source=x", "ref=y"}

\* path segments whose extension is on the skip list of shouldIgnoreUrl
AssetSegments == {"i.png"}

RECURSIVE TakeUntil(_, _)
TakeUntil(s, stops) ==
  IF s = <<>> \/ Head(s) \in stops THEN <<>>
  ELSE <<Head(s)>> \o TakeUntil(Tail(s), stops)

RECURSIVE DropUntil(_, _)
DropUntil(s, stops) ==
  IF s = <<>> \/ Head(s) \in stops THEN s ELSE DropUntil(Tail(s), stops)

\* url.match(/^[a-zA-Z]+:\/\//)
HasScheme(url) == Len(url) >= 1 /\ url[1] \in Schemes

\* new URL(s): ok = FALSE stands for the TypeError it throws
ParseUrl(s) ==
  IF Len(s) < 2 \/ s[1] \notin Schemes \/ s[2] \notin Hosts
  THEN [ok |-> FALSE, origin |-> <<>>, hostname |-> "", pathname |-> <<>>,
        search |-> <<>>, hash |-> <<>>]
  ELSE LET rest == SubSeq(s, 3, Len(s))
           path == TakeUntil(rest, StopTokens)
           afterPath == DropUntil(rest, StopTokens)
           query == IF afterPath # <<>> /\ Head(afterPath) = "?"
                    THEN TakeUntil(Tail(afterPath), {"#"}) ELSE <<>>
           afterQuery == DropUntil(afterPath, {"#"})
       IN  IF path # <<>> /\ Head(path) # "/"
           THEN [ok |-> FALSE, origin |-> <<>>, hostname |-> "", pathname |-> <<>>,
                 search |-> <<>>, hash |-> <<>>]
           ELSE [ok |-> TRUE,
                 origin |-> <<s[1], s[2]>>,
                 hostname |-> s[2],
                 pathname |-> IF path = <<>> THEN <<"/">> ELSE path,
                 search |-> query,
                 hash |-> IF afterQuery = <<>> THEN <<>> ELSE Tail(afterQuery)]

\* pathname.replace(/\/$/, ''): one trailing slash is removed
StripTrailingSlash(p) ==
  IF p # <<>> /\ p[Len(p)] = "/" THEN SubSeq(p, 1, Len(p) - 1) ELSE p

\* normalizeUrl of app/lib/utils.ts: the catch returns the reassigned url
normalizeUrl(url) ==
  LET u == IF HasScheme(url) THEN url ELSE <<"https://">> \o url
      p == ParseUrl(u)
  IN  IF p.ok THEN p.origin \o StripTrailingSlash(p.pathname) ELSE u

\* searchParams.delete for each parameter of the deny-list, then toString()
RECURSIVE DeleteParams(_)
DeleteParams(q) ==
  IF q = <<>> THEN <<>>
  ELSE IF Head(q) = "&" THEN DeleteParams(Tail(q))
  ELSE LET rest == DeleteParams(Tail(q))
       IN  IF Head(q) \in paramsToRemove THEN rest
           ELSE IF rest = <<>> THEN <<Head(q)>>
           ELSE <<Head(q), "&">> \o rest

\* a catch that returns what normalizeUrl gave
enhancedCatch_ReturnsNormalized(url, normalized) == normalized
\* the catch of enhancedNormalizeUrl: return url
enhancedCatch(url, normalized) == url

enhancedNormalizeUrl(url) ==
  LET normalized == normalizeUrl(url)
      urlObj == ParseUrl(normalized)
      newSearch == DeleteParams(urlObj.search)
      cleanUrl == urlObj.origin \o urlObj.pathname
                    \o (IF newSearch # <<>> THEN <<"?">> \o newSearch ELSE <<>>)
  IN  IF ~urlObj.ok THEN enhancedCatch(url, normalized)
      ELSE IF urlObj.hash # <<>> /\ Head(urlObj.hash) = "/"
           THEN urlObj.origin \o urlObj.hash
           ELSE cleanUrl

\* shouldIgnoreUrl: not http(s), another hostname, or a static-asset extension
shouldIgnoreUrl(url, startHostname) ==
  LET urlObj == ParseUrl(url)
  IN  IF ~urlObj.ok THEN TRUE
      ELSE IF urlObj.hostname # startHostname THEN TRUE
      ELSE urlObj.pathname[Len(urlObj.pathname)] \in AssetSegments

\* links.filter(...) of crawlSinglePage: same hostname and not ignored
RECURSIVE validLinksOf(_, _)
validLinksOf(links, startHostname) ==
  IF links = <<>> THEN <<>>
  ELSE LET l == Head(links)
           keep == ParseUrl(l).ok /\ ParseUrl(l).hostname = startHostname
                     /\ ~shouldIgnoreUrl(l, startHostname)
       IN  (IF keep THEN <<l>> ELSE <<>>) \o validLinksOf(Tail(links), startHostname)


(***************************************************************************)
(* Program constants and the bounds of the model.                           *)
(***************************************************************************)
CONCURRENT_TABS == 3
\* time to live of a robots cache entry: 24 hours, in milliseconds
CACHE_TTL == 86400000
\* Number.MAX_SAFE_INTEGER, the page limit outside test mode; only compared
\* with counters, so the largest integer TLC has stands for it
MAX_SAFE_INTEGER == 2147483647

\* crawlSite is checked for every maxPages in 1..MaxBudget and for the
\* unlimited budget; the handlers pass TEST_MODE_MAX_URLS or MAX_SAFE_INTEGER
MaxBudget == 3
Budgets == (1..MaxBudget) \cup {MAX_SAFE_INTEGER}

(***************************************************************************)
(* The site being crawled.  Root, PageA, ... are the URLs the fetcher can be *)
(* asked for; the other strings are hrefs found on pages.                    *)
(***************************************************************************)
Root == <<"https://", "h", "/">>
PageA == <<"https://", "h", "/", "a">>
PageASlash == <<"https://", "h", "/", "a", "/">>
PageASlash2 == <<"https://", "h", "/", "a", "/", "/">>
PageAUtm == <<"https://", "h", "/", "a", "?", "utm_source=x">>
PageB == <<"https://", "h", "/", "b">>
PageC == <<"https://", "h", "/", "c">>
PageD == <<"https://", "h", "/", "d">>
OtherHost == <<"https://", "o", "/", "a">>
Asset == <<"https://", "h", "/", "i.png">>
AssetSlash == <<"https://", "h", "/", "i.png", "/">>
NoUrl == <<>>

(***************************************************************************)
(* What a URL serves: the title, the body text, the serialized DOM, the      *)
(* number of ad links, whether an ad iframe is present and the hostname that *)
(* finally served the page.  Texts are tokens; includes() is equality with   *)
(* the phrase token and toLowerCase() is the table Lower.                    *)
(***************************************************************************)
Lower(t) ==
  CASE t = "Domain For Sale" -> "domain for sale"
    [] t = "DOMAIN FOR SALE" -> "domain for sale"
    [] t = "Buy This Domain" -> "buy this domain"
    [] OTHER -> t

Plain == [title |-> "Docs", body |-> "text", html |-> "<html>", adLinks |-> 0,
          adIframe |-> FALSE, servedHost |-> "h"]
Kinds ==
  { Plain,
    [Plain EXCEPT !.title = "", !.body = "", !.html = ""],
    [Plain EXCEPT !.body = "Buy This Domain"],
    [Plain EXCEPT !.adLinks = 11],
    [Plain EXCEPT !.adIframe = TRUE],
    [Plain EXCEPT !.title = "DOMAIN FOR SALE"],
    [Plain EXCEPT !.title = "Domain For Sale"],
    [Plain EXCEPT !.servedHost = "o"] }
Unset == [title |-> "?", body |-> "?", html |-> "?", adLinks |-> 0,
          adIframe |-> FALSE, servedHost |-> "?"]

\* a site: the hrefs each page carries, by the URL that serves the page, what
\* each URL may serve, the URLs whose fetch may fail (browser launch, render,
\* browser.close, HTTP) and what the fetch of its robots.txt may give
Pages == {Root, PageA, PageB, PageC, PageD, Asset}
NoLinks == [u \in Pages |-> <<>>]
AllPlain == [u \in Pages |-> {Plain}]
\* two hrefs that end up at the same page
SiteDup == [links |-> [NoLinks EXCEPT ![Root] = <<PageA, PageASlash2, OtherHost>>],
            kinds |-> AllPlain, faulty |-> {PageA}, robots |-> {"fail", "empty"}]
\* hrefs with a tracking parameter, a trailing slash and a static asset; the
\* second page serves anything
SiteTracking == [links |-> [NoLinks EXCEPT ![Root] = <<PageAUtm, PageASlash, Asset>>,
                                           ![PageA] = <<Root, PageB>>],
                 kinds |-> [AllPlain EXCEPT ![PageA] = Kinds],
                 faulty |-> Pages, robots |-> {"fail", "empty", "a", "all"}]
\* three pages behind the start page, for a full batch
SiteWide == [links |-> [NoLinks EXCEPT ![Root] = <<PageA, PageB, PageC>>],
             kinds |-> AllPlain, faulty |-> {PageA, PageB}, robots |-> {"fail", "a"}]
\* a single page that serves anything
SiteSingle == [links |-> NoLinks, kinds |-> [AllPlain EXCEPT ![Root] = Kinds],
               faulty |-> Pages, robots |-> {"fail", "empty", "a", "all"}]
\* four pages behind the start page: more than one batch holds
SiteFour == [links |-> [NoLinks EXCEPT ![Root] = <<PageA, PageB, PageC, PageD>>],
             kinds |-> AllPlain, faulty |-> {PageA}, robots |-> {"fail"}]
\* a link to another host and a link to a static asset with a slash after it
SiteAsset == [links |-> [NoLinks EXCEPT ![Root] = <<OtherHost, AssetSlash>>],
              kinds |-> AllPlain, faulty |-> {}, robots |-> {"fail"}]
Sites == {SiteDup, SiteTracking, SiteWide, SiteSingle, SiteFour, SiteAsset}

\* the phrases of hasDomainForSale, hasParkedDomain, hasDomainAdvertisement
\* and hasTrafficMonetization, tested on the lower-cased body text
BodyPhrases == {"domain for sale", "buy this domain", "domain may be for sale",
                "parked domain", "domain parking", "domain is for sale",
                "purchase this domain", "traffic monetization",
                "domain monetization"}

\* isDomainParking of the Puppeteer strategy
isDomainParkingRendered(k, startHostname) ==
  \/ Lower(k.body) \in BodyPhrases
  \/ k.adLinks > 10
  \/ k.adIframe
  \/ Lower(k.title) \in {"domain for sale", "buy this domain", "is for sale"}
  \/ k.servedHost # startHostname

\* normalizedUrl.includes(startHostname)
UrlIncludes(url, host) == \E i \in 1..Len(url) : url[i] = host

\* a fallback detector without the tests of the body text
isDomainParkingFallback_NoBodyTest(k, normalizedUrl, startHostname) ==
  \/ k.adLinks > 10
  \/ k.title \in {"Domain For Sale", "Buy this domain", "is for sale"}
  \/ ~UrlIncludes(normalizedUrl, startHostname)
\* isDomainParking of the fetch+JSDOM strategy: the title test is
\* case-sensitive, there is no iframe test and the hostname test looks at
\* the requested URL
isDomainParkingFallback(k, normalizedUrl, startHostname) ==
  \/ Lower(k.body) \in BodyPhrases
  \/ k.adLinks > 10
  \/ k.title \in {"Domain For Sale", "Buy this domain", "is for sale"}
  \/ ~UrlIncludes(normalizedUrl, startHostname)

(***************************************************************************)
(* robots.txt.  A parsed policy is the set of disallowed path prefixes for   *)
(* the host it was fetched from; NoParser is the null of a failed fetch.     *)
(***************************************************************************)
NoParser == [host |-> "", disallow |-> {<<"null">>}]
\* a fetch whose failure leaves a policy that disallows everything
RobotsFetch_FailClosed(host, outcome) == [host |-> host, disallow |-> {<<"/">>}]
\* what the fetch of robots.txt leaves for the cache: the null of a failed
\* fetch or of a response that is not ok, or the parser of a file without rules, one that disallows /a, or
\* one that disallows everything
RobotsFetch(host, outcome) ==
  CASE outcome = "fail" -> NoParser
    [] outcome = "notOk" -> NoParser
    [] outcome = "empty" -> [host |-> host, disallow |-> {}]
    [] outcome = "a" -> [host |-> host, disallow |-> {<<"/", "a">>}]
    [] outcome = "all" -> [host |-> host, disallow |-> {<<"/">>}]
NoEntry == [data |-> NoParser, timestamp |-> 0, attempted |-> FALSE]

\* an expiry that begins when the age reaches the time to live
expired_AtTTL(age) == age >= CACHE_TTL
\* Date.now() - entry.timestamp > CACHE_TTL
expired(age) == age > CACHE_TTL

\* getCachedRobotsParser, for the entry of the domain and the time of the
\* call
getCachedRobotsParser(entry, t) ==
  IF entry = NoEntry THEN [parser |-> NoParser, shouldFetch |-> TRUE]
  ELSE IF expired(t - entry.timestamp)
  THEN [parser |-> NoParser, shouldFetch |-> TRUE]
  ELSE IF entry.attempted /\ entry.data = NoParser
  THEN [parser |-> NoParser, shouldFetch |-> FALSE]
  ELSE [parser |-> entry.data, shouldFetch |-> FALSE]

\* the entry setCachedRobotsParser stores
setCachedRobotsParser(parser, t) ==
  [data |-> parser, timestamp |-> t, attempted |-> TRUE]

IsPrefix(p, s) == Len(p) <= Len(s) /\ SubSeq(s, 1, Len(p)) = p

\* parser.isAllowed(url, userAgent) of robots-parser: undefined for a URL
\* that is not of the origin https://host the robots.txt was fetched from,
\* false when a Disallow prefix matches, true otherwise
parserIsAllowed(parser, url) ==
  LET urlObj == ParseUrl(url)
  IN  IF ~urlObj.ok \/ urlObj.origin # <<"https://", parser.host>> THEN "undefined"
      ELSE IF \E d \in parser.disallow : IsPrefix(d, urlObj.pathname) THEN "false"
      ELSE "true"

\* an isUrlAllowed that takes the false of the parser for an allowance
isUrlAllowed_FalseAllowed(url, entry) == TRUE
\* isUrlAllowed, given the cache entry getRobotsParser answers from
isUrlAllowed(url, entry) ==
  LET urlObj == ParseUrl(url)
  IN  IF ~urlObj.ok THEN TRUE
      ELSE IF entry.data = NoParser THEN TRUE
      ELSE parserIsAllowed(entry.data, url) # "false"


(***************************************************************************)
(* Requests.  The handlers receive a URL (NoUrl when the parameter is        *)
(* missing); DomainParts is hostname.split('.') for the host tokens.         *)
(***************************************************************************)
Malformed == <<"%%">>
SingleLabel == <<"https://", "localhost", "/">>
NumericTld == <<"https://", "n", "/">>
ShortTld == <<"https://", "s", "/">>
LongTld == <<"https://", "l", "/">>
RequestUrls == {NoUrl, Malformed, SingleLabel, NumericTld, ShortTld, LongTld, Root}
Handlers == {"POST", "GET"}

Digits == {"0", "1", "2", "3", "4", "5", "6", "7", "8", "9"}
\* hostname.split('.'), each label as the sequence of its characters
DomainParts(host) ==
  CASE host = "h" -> << <<"h">>, <<"c", "o", "m">> >>
    [] host = "o" -> << <<"o">>, <<"n", "e", "t">> >>
    [] host = "n" -> << <<"n">>, <<"1", "2", "3">> >>
    [] host = "s" -> << <<"s">>, <<"c">> >>
    [] host = "l" -> << <<"l">>, <<"a", "b", "c", "d", "e", "f", "g", "h", "i",
                                   "j", "k", "l", "m">> >>
    [] OTHER -> << <<host>> >>

\* the URL validation of the POST handler: the url is present, new URL(url)
\* does not throw, the hostname has at least two labels and its last label
\* is not made of digits only and has 2 to 12 characters
PostUrlValid(url) ==
  /\ url # NoUrl
  /\ ParseUrl(url).ok
  /\ LET parts == DomainParts(ParseUrl(url).hostname)
         tld == parts[Len(parts)]
     IN  /\ Len(parts) >= 2
         /\ \E k \in 1..Len(tld) : tld[k] \notin Digits
         /\ Len(tld) >= 2 /\ Len(tld) <= 12

\* the HEAD probe: the network of the model has one server, host h, which
\* may or may not answer
Reachability(url) ==
  IF ParseUrl(url).ok /\ ParseUrl(url).hostname = "h" THEN BOOLEAN ELSE {FALSE}

Min(S) == CHOOSE x \in S : \A y \in S : x <= y
\* every URL a crawlSinglePage call can be asked to fetch
Targets == Pages

VARIABLES
  handler,       \* which handler serves the request
  reqUrl,        \* the url of the request
  maxPages,      \* effectiveMaxPages handed to crawlSite
  site,          \* the hrefs on the pages of the crawled site
  served,        \* what each URL serves, fixed when it is first fetched
  hpc,           \* position of the handler
  disconnected,  \* the client has gone away
  stream,        \* the response stream: the frame written last, and for
                 \* every type and URL how many such frames were written
  cpc,           \* position of crawlSite
  urlQueue, discovered, results, stats,
  task,          \* the crawlSinglePage calls of the current batch
  robotsCache,   \* robotsCache, by domain
  fetches,       \* per URL, how often a page fetch was started for it
  batches,       \* number of batches dequeued so far
  abortedAt,     \* when the signal fired: whether a batch was in flight,
                 \* how many batches had been dequeued, which calls were
                 \* in the middle of a fetch and what stats.attempted was
  canon,         \* a stand-alone run of the canonicalizer on the hrefs of
                 \* one page: the hrefs, their keys and the frontier made
  clock,         \* Date.now(), and how often it has advanced
  calls,         \* stand-alone calls of isUrlAllowed
  gen            \* a request to the generate handler: its body, the
                 \* description calls and the response

vars == <<handler, reqUrl, maxPages, site, served, hpc, disconnected, stream,
          cpc, urlQueue, discovered, results, stats, task, robotsCache,
          fetches, batches, abortedAt, canon, clock, calls, gen>>

\* request.signal.aborted in POST; GET hands crawlSite the signal of a fresh
\* AbortController, which nothing ever aborts
aborted == handler = "POST" /\ disconnected

NoResult == [url |-> NoUrl, title |-> "",
             metaData |-> [description |-> "", links |-> <<>>], links |-> <<>>]
IdleTask == [pc |-> "idle", url |-> NoUrl, normalizedUrl |-> NoUrl,
             browser |-> "null", puppeteerError |-> "", result |-> NoResult,
             returned |-> "pending"]
Slots == 1..CONCURRENT_TABS
Active == { i \in Slots : task[i].pc # "idle" }

Ev(type, status, st, url, urls) ==
  [type |-> type, status |-> status, attempted |-> st.attempted,
   successful |-> st.successful, url |-> url, crawledUrls |-> urls]

NoEvent == [type |-> "none", status |-> "", attempted |-> 0, successful |-> 0,
            url |-> NoUrl, crawledUrls |-> <<>>]

\* sendUpdate: the frame reaches the stream unless the client is gone
sendUpdate(s, ev) ==
  IF disconnected THEN s
  ELSE [last |-> ev, written |-> s.written (+) SetToBag({<<ev.type, ev.url>>})]
\* the sendUpdate of GET awaits writer.write without a try, and the write
\* rejects once the client is gone; the one of POST returns or swallows
sendUpdateThrows == handler = "GET" /\ disconnected

CanonIdle == [pc |-> "idle", hrefs |-> <<>>, keys |-> <<>>, rekeys |-> <<>>,
              queue |-> <<>>]

IdleCall == [pc |-> "idle", url |-> NoUrl, fetched |-> FALSE,
             outcome |-> "", parser |-> NoParser, answer |-> TRUE]

\* a description text; kind "empty" is the empty string or undefined
Text(kind, of) == [kind |-> kind, of |-> of]
NoText == Text("empty", 0)
GenIdle == [pc |-> "idle", body |-> [kind |-> "invalid", pages |-> <<>>],
            key |-> FALSE, settledResults |-> <<>>, processed |-> 0,
            descriptions |-> <<>>, responses |-> <<>>, markdown |-> <<>>,
            customInstruction |-> "", status |-> 0]

\* no request has been handled yet
IdleCrawl ==
  /\ served = [u \in Targets |-> Unset]
  /\ hpc = "request"
  /\ disconnected = FALSE
  /\ stream = [last |-> NoEvent, written |-> EmptyBag]
  /\ cpc = "idle"
  /\ urlQueue = <<>>
  /\ discovered = {}
  /\ results = <<>>
  /\ stats = [attempted |-> 0, successful |-> 0, total |-> 0]
  /\ task = [i \in Slots |-> IdleTask]
  /\ robotsCache = [d \in Hosts |-> NoEntry]
  /\ fetches = [u \in Targets |-> 0]
  /\ batches = 0
  /\ abortedAt = [fired |-> FALSE, inBatch |-> FALSE, batches |-> 0,
                  fetching |-> {}, attempted |-> 0]

Init ==
  /\ handler \in Handlers
  /\ reqUrl \in RequestUrls
  /\ maxPages \in Budgets
  /\ site \in Sites
  /\ IdleCrawl
  /\ canon = CanonIdle
  /\ clock = [now |-> 0, ticks |-> 0]
  /\ calls = <<>>
  /\ gen = GenIdle

crawlVars == <<urlQueue, discovered, results, stats, task, robotsCache,
               served, fetches, batches>>
\* what no step of a crawl changes: the request, the site, the clock and
\* the stand-alone runs of the canonicalizer and of isUrlAllowed
reqVars == <<handler, reqUrl, maxPages, site, canon, clock, calls, gen>>

(***************************************************************************)
(* The handlers up to the call of crawlSite.  crawlSite runs to its first    *)
(* await, the robots.txt lookup of getRobotsParser.                          *)
(***************************************************************************)
POST ==
  /\ hpc = "request" /\ handler = "POST"
  /\ \E reachable \in Reachability(reqUrl) :
       IF PostUrlValid(reqUrl) /\ reachable
       THEN hpc' = "streaming" /\ cpc' = "robots"
       ELSE hpc' = "rejected" /\ cpc' = cpc
  /\ UNCHANGED <<reqVars, crawlVars, disconnected, stream, abortedAt>>

GET ==
  /\ hpc = "request" /\ handler = "GET"
  /\ \E reachable \in Reachability(reqUrl) :
       IF reqUrl = NoUrl
       THEN hpc' = "rejected" /\ cpc' = cpc /\ stream' = stream
       ELSE IF ~reachable
       THEN /\ stream' = sendUpdate(stream, Ev("error", "", stats, reqUrl, <<>>))
            /\ hpc' = "closed" /\ cpc' = cpc
       ELSE hpc' = "streaming" /\ cpc' = "robots" /\ stream' = stream
  /\ UNCHANGED <<reqVars, crawlVars, disconnected, abortedAt>>

\* the client closes the connection
Disconnect ==
  /\ hpc = "streaming" /\ ~disconnected
  /\ disconnected' = TRUE
  /\ abortedAt' = IF handler = "POST"
                  THEN [fired |-> TRUE, inBatch |-> cpc = "batch", batches |-> batches,
                        fetching |-> { i \in Slots :
                                       task[i].pc \in {"render", "fallback"} },
                        attempted |-> stats.attempted]
                  ELSE abortedAt
  /\ UNCHANGED <<reqVars, crawlVars, hpc, stream, cpc>>


(***************************************************************************)
(* crawlSite.                                                                *)
(***************************************************************************)
startHostname == ParseUrl(reqUrl).hostname

\* getRobotsParser at the first await of crawlSite: the robots.txt fetch
\* settles and setCachedRobotsParser records the parser or the null; then the
\* frontier, the discovered set and the counters are set up and the first
\* progress event is sent
crawlSiteStart ==
  /\ hpc = "streaming" /\ cpc = "robots"
  /\ \E outcome \in site.robots :
       robotsCache' = [robotsCache EXCEPT ![startHostname] =
                          IF getCachedRobotsParser(robotsCache[startHostname],
                                                   clock.now).shouldFetch
                          THEN setCachedRobotsParser(
                                 RobotsFetch(startHostname, outcome), clock.now)
                          ELSE robotsCache[startHostname]]
  /\ LET normalizedStartUrl == enhancedNormalizeUrl(reqUrl)
         stats0 == [attempted |-> 0, successful |-> 0, total |-> maxPages]
     IN  /\ urlQueue' = <<normalizedStartUrl>>
         /\ discovered' = {normalizedStartUrl}
         /\ results' = <<>>
         /\ stats' = stats0
         /\ stream' = sendUpdate(stream,
                        Ev("progress", "loading", stats0, normalizedStartUrl, <<>>))
         /\ cpc' = IF sendUpdateThrows THEN "threw" ELSE "loop"
  /\ UNCHANGED <<reqVars, served, hpc, disconnected, task, fetches, batches,
                 abortedAt>>

\* a batch that takes the whole queue
batchSizeOf_WholeQueue(queue, attempted, limit) ==
  Min({Len(queue), limit - attempted})
\* Math.min(CONCURRENT_TABS, urlQueue.length, remainingPages)
batchSizeOf(queue, attempted, limit) ==
  Min({CONCURRENT_TABS, Len(queue), limit - attempted})

\* a loop that ends at the first error event of a page
loopContinues_UntilError ==
  /\ urlQueue # <<>> /\ stats.attempted < maxPages /\ ~aborted
  /\ \A e \in BagToSet(stream.written) : e[1] # "error"
\* the condition of the while loop
loopContinues == urlQueue # <<>> /\ stats.attempted < maxPages /\ ~aborted

\* one turn of the loop up to Promise.all: the batch is spliced off the
\* queue, the progress event is sent, and every crawlSinglePage call of the
\* batch runs to its first await, the robots check of its URL
crawlSiteBatch ==
  /\ hpc = "streaming" /\ cpc = "loop"
  /\ loopContinues
  /\ LET batchSize == batchSizeOf(urlQueue, stats.attempted, maxPages)
         batch == SubSeq(urlQueue, 1, batchSize)
     IN  /\ batchSize > 0
         /\ urlQueue' = SubSeq(urlQueue, batchSize + 1, Len(urlQueue))
         /\ batches' = batches + 1
         /\ stream' = sendUpdate(stream,
                        Ev("progress", "loading", stats, batch[1], <<>>))
         /\ IF sendUpdateThrows
            THEN cpc' = "threw" /\ task' = task
            ELSE /\ cpc' = "batch"
                 /\ task' = [i \in Slots |->
                      IF i <= batchSize
                      THEN [IdleTask EXCEPT !.pc = "robots", !.url = batch[i],
                              !.normalizedUrl = enhancedNormalizeUrl(batch[i])]
                      ELSE IdleTask]
  /\ UNCHANGED <<reqVars, served, hpc, disconnected, discovered, results, stats,
                 robotsCache, fetches, abortedAt>>

RECURSIVE UrlsOf(_)
UrlsOf(rs) == IF rs = <<>> THEN <<>> ELSE <<Head(rs).url>> \o UrlsOf(Tail(rs))

\* the loop has ended: the complete event is sent and crawlSite returns
crawlSiteComplete ==
  /\ hpc = "streaming" /\ cpc = "loop"
  /\ ~loopContinues
  /\ stream' = sendUpdate(stream,
                 Ev("complete", IF aborted THEN "canceled" ELSE "success",
                    stats, NoUrl, UrlsOf(results)))
  /\ cpc' = IF sendUpdateThrows THEN "threw" ELSE "returned"
  /\ UNCHANGED <<reqVars, crawlVars, hpc, disconnected, abortedAt>>

\* a discovered set that is never taken as full
discoveredFull_Never(found, limit) == FALSE
\* discovered.size >= maxPages
discoveredFull(found, limit) == Cardinality(found) >= limit

\* a membership test that never finds the link
alreadyDiscovered_Never(link, found) == FALSE
\* discovered.has(normalizedLink)
alreadyDiscovered(link, found) == link \in found

\* the links of one result are added to the frontier; st is the pair of the
\* queue and the discovered set
RECURSIVE AddLinks(_, _, _, _)
AddLinks(links, st, limit, entry) ==
  IF links = <<>> \/ discoveredFull(st.discovered, limit) THEN st
  ELSE LET normalizedLink == enhancedNormalizeUrl(Head(links))
       IN  IF alreadyDiscovered(normalizedLink, st.discovered)
              \/ ~isUrlAllowed(normalizedLink, entry)
           THEN AddLinks(Tail(links), st, limit, entry)
           ELSE AddLinks(Tail(links),
                         [queue |-> Append(st.queue, normalizedLink),
                          discovered |-> st.discovered \cup {normalizedLink}],
                         limit, entry)

RECURSIVE AddResults(_, _, _, _)
AddResults(rs, st, limit, entry) ==
  IF rs = <<>> THEN st
  ELSE LET st1 == AddLinks(Head(rs).links, st, limit, entry)
       IN  IF discoveredFull(st1.discovered, limit) THEN st1
           ELSE AddResults(Tail(rs), st1, limit, entry)

\* batchResults.filter(Boolean), in the order of the batch
RECURSIVE ValidResults(_, _)
ValidResults(t, i) ==
  IF i > CONCURRENT_TABS THEN <<>>
  ELSE (IF t[i].returned = "result" THEN <<t[i].result>> ELSE <<>>)
         \o ValidResults(t, i + 1)

\* a barrier that opens at the first call that has settled
batchSettled_AtFirst == \E i \in Active : task[i].pc = "done"
\* await Promise.all(batchPromises): every call of the batch has settled
batchSettled == \A i \in Active : task[i].pc = "done"

\* if (stats.attempted < maxPages) around the expansion of the frontier
mayExpand(st, limit) == st.attempted < limit

\* Promise.all has settled: results are recorded, the frontier is extended
\* and the closing progress event of the batch is sent
crawlSiteSettled ==
  /\ hpc = "streaming" /\ cpc = "batch"
  /\ batchSettled
  /\ LET validResults == ValidResults(task, 1)
         st == IF mayExpand(stats, maxPages)
               THEN AddResults(validResults,
                               [queue |-> urlQueue, discovered |-> discovered],
                               maxPages, robotsCache[startHostname])
               ELSE [queue |-> urlQueue, discovered |-> discovered]
     IN  /\ results' = results \o validResults
         /\ urlQueue' = st.queue
         /\ discovered' = st.discovered
         /\ stream' = sendUpdate(stream,
                        Ev("progress", "extracting", stats, NoUrl, <<>>))
  /\ task' = [i \in Slots |-> IdleTask]
  /\ cpc' = IF sendUpdateThrows THEN "threw" ELSE "loop"
  /\ UNCHANGED <<reqVars, served, hpc, disconnected, stats, robotsCache,
                 fetches, batches, abortedAt>>

\* crawlSite has returned: the handler closes the writer
HandlerClose ==
  /\ hpc = "streaming" /\ cpc = "returned"
  /\ hpc' = "closed"
  /\ UNCHANGED <<reqVars, crawlVars, cpc, disconnected, stream, abortedAt>>

\* crawlSite has thrown: the catch of the handler sends an error event and
\* closes the writer, unless that sendUpdate throws as well
HandlerCatch ==
  /\ hpc = "streaming" /\ cpc = "threw"
  /\ stream' = sendUpdate(stream, Ev("error", "", stats, NoUrl, <<>>))
  /\ hpc' = IF sendUpdateThrows THEN "failed" ELSE "closed"
  /\ UNCHANGED <<reqVars, crawlVars, cpc, disconnected, abortedAt>>


(***************************************************************************)
(* crawlSinglePage.  Each action is the code of one call between two awaits; *)
(* an operator that ends a path of the code returns the new task record,     *)
(* counters and stream.                                                      *)
(***************************************************************************)
SiteLinks(u) == site.links[u]
HostOf(u) == ParseUrl(u).hostname

\* what the URL serves: chosen when it is fetched for the first time
ServedChoices(u) == IF served[u] = Unset THEN site.kinds[u] ELSE {served[u]}

\* a close() that leaves the browser as it was
CloseOutcomes_Forgotten(browser) == {browser}
\* browser.close(), guarded by if (browser): an exception of close() is
\* swallowed or caught, and the browser counts as closed after the call
CloseOutcomes(browser) == IF browser = "null" THEN {"null"} ELSE {"closed"}

taskFrame == <<reqVars, hpc, disconnected, cpc, urlQueue, discovered, results,
               robotsCache, batches, abortedAt>>

ReturnNull(t) == [t EXCEPT !.pc = "done", !.returned = "null", !.puppeteerError = ""]

\* the strict limit check, which lets the call go on
mayAttempt(st) == st.attempted < st.total
\* a call that forgets to count its attempt
countAttempt_Forgotten(st) == st
\* a call that counts its attempt twice
countAttempt_Twice(st) == [st EXCEPT !.attempted = @ + 2]
\* stats.attempted++ before the fetch
countAttempt(st) == [st EXCEPT !.attempted = @ + 1]
\* stats.attempted-- when the signal is found aborted right after
abortBeforeFetch(st) == [st EXCEPT !.attempted = @ - 1]

\* from the call to the launch of the browser: robots check, limit check,
\* increment, abort check
crawlSinglePageEnter(i) ==
  /\ cpc = "batch" /\ task[i].pc = "robots"
  /\ LET t == task[i]
         isAllowed == isUrlAllowed(t.normalizedUrl, robotsCache[HostOf(t.normalizedUrl)])
     IN  IF ~isAllowed \/ ~mayAttempt(stats)
         THEN /\ task' = [task EXCEPT ![i] = ReturnNull(t)]
              /\ UNCHANGED <<stats, fetches>>
         ELSE IF aborted
         THEN /\ task' = [task EXCEPT ![i] = ReturnNull(t)]
              /\ stats' = abortBeforeFetch(countAttempt(stats))
              /\ fetches' = fetches
         ELSE /\ stats' = countAttempt(stats)
              /\ task' = [task EXCEPT ![i].pc = "render"]
              /\ fetches' = [fetches EXCEPT ![t.normalizedUrl] = @ + 1]
  /\ UNCHANGED <<taskFrame, served, stream>>

\* how the fetches of a URL can end
RenderOutcomes(u) ==
  IF u \in site.faulty THEN {"launchError", "renderError", "evaluated"}
  ELSE {"evaluated"}
CloseThrows(u) == IF u \in site.faulty THEN BOOLEAN ELSE {FALSE}
FallbackOutcomes(u) ==
  IF aborted THEN {"fetchError"}
  ELSE IF u \in site.faulty THEN {"fetchError", "notOk", "ok"}
  ELSE {"ok"}

\* the catch of the Puppeteer strategy: the browser is closed if there is
\* one and the fallback fetch is started
InnerCatch(t, error, closed) ==
  [t EXCEPT !.pc = "fallback", !.result = NoResult, !.puppeteerError = error,
            !.browser = IF t.browser = "null" THEN "null" ELSE closed]

\* the success branch of either strategy up to its first sendUpdate
CountSuccess(st) == [st EXCEPT !.successful = @ + 1]

\* puppeteer.launch ... page.evaluate have settled
crawlSinglePageRender(i) ==
  /\ cpc = "batch" /\ task[i].pc = "render"
  /\ LET t == task[i] IN
     \E outcome \in RenderOutcomes(t.normalizedUrl),
        k \in ServedChoices(t.normalizedUrl), closed \in CloseOutcomes("open") :
       CASE outcome = "launchError" ->
              /\ task' = [task EXCEPT ![i] = InnerCatch(t, "launch", closed)]
              /\ UNCHANGED <<stats, stream, served>>
         [] outcome = "renderError" ->
              /\ task' = [task EXCEPT ![i] =
                            InnerCatch([t EXCEPT !.browser = "open"], "render", closed)]
              /\ UNCHANGED <<stats, stream, served>>
         [] outcome = "evaluated" ->
              /\ served' = [served EXCEPT ![t.normalizedUrl] = k]
              /\ IF isDomainParkingRendered(k, HostOf(t.normalizedUrl))
                 THEN /\ task' = [task EXCEPT ![i] =
                                    InnerCatch([t EXCEPT !.browser = "open"],
                                               "parking", closed)]
                      /\ UNCHANGED <<stats, stream>>
                 ELSE IF k.title = "" /\ k.html = ""
                 THEN /\ task' = [task EXCEPT ![i] =
                                    InnerCatch([t EXCEPT !.browser = "open"],
                                               "noContent", closed)]
                      /\ UNCHANGED <<stats, stream>>
                 ELSE /\ stats' = CountSuccess(stats)
                      /\ stream' = sendUpdate(stream,
                                     Ev("progress", "success", CountSuccess(stats),
                                        NoUrl, <<>>))
                      /\ task' = [task EXCEPT ![i] =
                                    IF sendUpdateThrows
                                    THEN InnerCatch([t EXCEPT !.browser = "open"],
                                                    "sendUpdate", closed)
                                    ELSE [t EXCEPT !.browser = "open",
                                                   !.pc = "sentProgress"]]
  /\ UNCHANGED <<taskFrame, fetches>>

\* the result object, which both strategies build with the same fields;
\* content is the serialized DOM in the Puppeteer strategy and the text of
\* the body in the fallback
ResultOf(t, k, hostname, content) ==
  LET validLinks == validLinksOf(SiteLinks(t.normalizedUrl), hostname)
  IN  [url |-> t.normalizedUrl, title |-> k.title,
       metaData |-> [description |-> content, links |-> validLinks],
       links |-> validLinks]

\* after the progress event of the Puppeteer strategy: the result is built
\* and sent
crawlSinglePageResult(i) ==
  /\ cpc = "batch" /\ task[i].pc = "sentProgress"
  /\ LET t == task[i]
         result == ResultOf(t, served[t.normalizedUrl], HostOf(t.normalizedUrl),
                            served[t.normalizedUrl].html)
     IN  \E closed \in CloseOutcomes("open") :
           /\ stream' = sendUpdate(stream,
                          Ev("result", "", stats, t.normalizedUrl, <<>>))
           /\ task' = [task EXCEPT ![i] =
                         IF sendUpdateThrows THEN InnerCatch(t, "sendUpdate", closed)
                         ELSE [t EXCEPT !.pc = "sentResult", !.result = result]]
  /\ UNCHANGED <<taskFrame, stats, served, fetches>>

\* await browser.close() after the result event: the call returns the
\* result, or close() throws into the catch of the Puppeteer strategy
crawlSinglePageClose(i) ==
  /\ cpc = "batch" /\ task[i].pc = "sentResult"
  /\ \E closeThrows \in CloseThrows(task[i].normalizedUrl), closed \in CloseOutcomes("open") :
       task' = [task EXCEPT ![i] =
                  IF closeThrows THEN InnerCatch(task[i], "close", closed)
                  ELSE [task[i] EXCEPT !.pc = "done", !.returned = "result",
                                       !.browser = closed]]
  /\ UNCHANGED <<taskFrame, stats, stream, served, fetches>>

\* an outer catch that tests the signal the wrong way round
catchSeesAbort_Inverted == ~aborted
\* signal.aborted as the outer catch reads it
catchSeesAbort == aborted

\* the outer catch: the attempt is taken back and an error event is sent,
\* or a complete event when the signal is aborted; when that sendUpdate
\* throws, the call rejects after its finally block
OuterCatch(t, st, closed) ==
  LET st1 == [st EXCEPT !.attempted = @ - 1]
  IN  IF catchSeesAbort
      THEN [t |-> [t EXCEPT !.pc = "errSent", !.result = NoResult],
            stats |-> st1,
            stream |-> sendUpdate(stream, Ev("complete", "canceled", st1, NoUrl, <<>>))]
      ELSE [t |-> IF sendUpdateThrows
                  THEN [ReturnNull(t) EXCEPT !.result = NoResult,
                          !.browser = IF t.browser = "null" THEN "null" ELSE closed]
                  ELSE [t EXCEPT !.pc = "errSent", !.result = NoResult],
            stats |-> st1,
            stream |-> sendUpdate(stream, Ev("error", "", st1, t.normalizedUrl, <<>>))]

Apply(i, r) ==
  /\ task' = [task EXCEPT ![i] = r.t]
  /\ stats' = r.stats
  /\ stream' = r.stream

\* the fallback fetch and response.text() have settled; an aborted signal
\* makes the fetch reject
crawlSinglePageFallback(i) ==
  /\ cpc = "batch" /\ task[i].pc = "fallback"
  /\ LET t == task[i] IN
     \E outcome \in FallbackOutcomes(t.normalizedUrl),
        k \in ServedChoices(t.normalizedUrl), closed \in CloseOutcomes("open") :
       IF outcome # "ok"
       THEN Apply(i, OuterCatch(t, stats, closed)) /\ served' = served
       ELSE /\ served' = [served EXCEPT ![t.normalizedUrl] = k]
            /\ IF isDomainParkingFallback(k, t.normalizedUrl, startHostname)
                  \/ (k.title = "" /\ k.body = "")
               THEN Apply(i, OuterCatch(t, stats, closed))
               ELSE IF sendUpdateThrows
               THEN Apply(i, OuterCatch(t, CountSuccess(stats), closed))
               ELSE /\ stats' = CountSuccess(stats)
                    /\ stream' = sendUpdate(stream,
                                   Ev("progress", "success", CountSuccess(stats),
                                      NoUrl, <<>>))
                    /\ task' = [task EXCEPT ![i].pc = "fbSentProgress"]
  /\ UNCHANGED <<taskFrame, fetches>>

\* after the progress event of the fallback strategy
crawlSinglePageFallbackResult(i) ==
  /\ cpc = "batch" /\ task[i].pc = "fbSentProgress"
  /\ LET t == task[i]
         result == ResultOf(t, served[t.normalizedUrl], startHostname,
                            served[t.normalizedUrl].body)
     IN  \E closed \in CloseOutcomes("open") :
           IF sendUpdateThrows
           THEN Apply(i, OuterCatch(t, stats, closed))
           ELSE /\ stream' = sendUpdate(stream,
                               Ev("result", "", stats, t.normalizedUrl, <<>>))
                /\ task' = [task EXCEPT ![i] =
                              [t EXCEPT !.pc = "fbSentResult", !.result = result]]
                /\ stats' = stats
  /\ UNCHANGED <<taskFrame, served, fetches>>

\* return of the fallback result or of the null of the outer catch, through
\* the finally block that closes the browser
crawlSinglePageReturn(i) ==
  /\ cpc = "batch" /\ task[i].pc \in {"fbSentResult", "errSent"}
  /\ \E closed \in CloseOutcomes(task[i].browser) :
       task' = [task EXCEPT ![i] =
                  [task[i] EXCEPT !.pc = "done", !.browser = closed,
                     !.puppeteerError = "",
                     !.returned = IF task[i].pc = "fbSentResult"
                                  THEN "result" ELSE "null"]]
  /\ UNCHANGED <<taskFrame, stats, stream, served, fetches>>

crawlSinglePage(i) ==
  \/ crawlSinglePageEnter(i)
  \/ crawlSinglePageRender(i)
  \/ crawlSinglePageResult(i)
  \/ crawlSinglePageClose(i)
  \/ crawlSinglePageFallback(i)
  \/ crawlSinglePageFallbackResult(i)
  \/ crawlSinglePageReturn(i)

Next ==
  \/ POST
  \/ GET
  \/ Disconnect
  \/ crawlSiteStart
  \/ crawlSiteBatch
  \/ crawlSiteComplete
  \/ crawlSiteSettled
  \/ HandlerClose
  \/ HandlerCatch
  \/ \E i \in Slots : crawlSinglePage(i)

Spec == Init /\ [][Next]_vars


(***************************************************************************)
(* The canonicalizer on its own: enhancedNormalizeUrl is applied to the two  *)
(* hrefs of a page and to the keys it gave, and the links are admitted to an *)
(* empty frontier the way crawlSite does after a batch.                      *)
(***************************************************************************)
\* the longest run of slashes at the end of a path
MaxSlashes == 2

RECURSIVE Slashes(_)
Slashes(n) == IF n = 0 THEN <<>> ELSE <<"/">> \o Slashes(n - 1)

CanonPrefixes == {<<"https://", "h">>, <<"h">>}
CanonPaths == {<<>>, <<"/">>, <<"/", "b">>}
                \cup { <<"/", "a">> \o Slashes(n) : n \in 0..MaxSlashes }
CanonQueries == {<<>>, <<"?", "utm_source=x">>, <<"?", "page=1">>,
                 <<"?", "page=2">>, <<"?", "utm_source=x", "&", "page=1">>}
CanonHashes == {<<>>, <<"#", "/", "a">>, <<"#", "/", "b">>, <<"#", "top">>}
CanonInputs ==
  { pre \o path \o q \o hash :
      pre \in CanonPrefixes, path \in CanonPaths, q \in CanonQueries,
      hash \in CanonHashes }
    \cup {Malformed, <<"https://", "%%">>, NoUrl}

InitCanon ==
  /\ handler = "GET" /\ reqUrl = Root /\ maxPages = MAX_SAFE_INTEGER
  /\ site = SiteSingle
  /\ IdleCrawl
  /\ canon \in { [CanonIdle EXCEPT !.pc = "input", !.hrefs = <<u, v>>] :
                   u \in CanonInputs, v \in CanonInputs }
  /\ clock = [now |-> 0, ticks |-> 0]
  /\ calls = <<>>
  /\ gen = GenIdle

crawlState == <<handler, reqUrl, maxPages, site, served, hpc, disconnected,
                stream, cpc, urlQueue, discovered, results, stats, task,
                robotsCache, fetches, batches, abortedAt, clock, calls, gen>>

\* enhancedNormalizeUrl on each href, and again on each key
Canonicalize ==
  /\ canon.pc = "input"
  /\ LET keys == [n \in 1..2 |-> enhancedNormalizeUrl(canon.hrefs[n])]
     IN  canon' = [canon EXCEPT !.pc = "keyed", !.keys = keys,
                     !.rekeys = [n \in 1..2 |-> enhancedNormalizeUrl(keys[n])]]
  /\ UNCHANGED crawlState

\* the frontier expansion of crawlSite for a result that carries the two
\* hrefs, with an empty discovered set, no robots policy and no page limit
AdmitLinks ==
  /\ canon.pc = "keyed"
  /\ canon' = [canon EXCEPT !.pc = "admitted",
                  !.queue = AddLinks(validLinksOf(canon.hrefs, "h"),
                                     [queue |-> <<>>, discovered |-> {}],
                                     MAX_SAFE_INTEGER, NoEntry).queue]
  /\ UNCHANGED crawlState

NextCanon == Canonicalize \/ AdmitLinks

SpecCanon == InitCanon /\ [][NextCanon]_vars


(***************************************************************************)
(* The robots cache on its own: isUrlAllowed is called for URLs while the    *)
(* clock advances.  A call runs to the await of the robots.txt fetch, if it  *)
(* starts one, and from there to its return.                                 *)
(***************************************************************************)
\* how many isUrlAllowed calls are made, and how often the clock advances
MaxCalls == 3
MaxTicks == 2

HttpA == <<"http://", "h", "/", "a">>
CheckedUrls == {Malformed, PageA, HttpA}
FetchOutcomes == {"fail", "notOk", "a"}
\* the clock advances by a millisecond or by the time to live
TickSizes == {1, CACHE_TTL}

InitRobots ==
  /\ handler = "GET" /\ reqUrl = Root /\ maxPages = MAX_SAFE_INTEGER
  /\ site = SiteSingle
  /\ IdleCrawl
  /\ canon = CanonIdle
  /\ clock = [now |-> 0, ticks |-> 0]
  /\ calls = [c \in 1..MaxCalls |-> IdleCall]
  /\ gen = GenIdle

robotsFrame == <<handler, reqUrl, maxPages, site, served, hpc, disconnected,
                 stream, cpc, urlQueue, discovered, results, stats, task,
                 fetches, batches, abortedAt, canon, gen>>

Tick ==
  /\ clock.ticks < MaxTicks
  /\ \E d \in TickSizes : clock' = [now |-> clock.now + d, ticks |-> clock.ticks + 1]
  /\ UNCHANGED <<robotsFrame, robotsCache, calls>>

\* isUrlAllowed(url) up to the await of the robots.txt fetch, or to its
\* return when new URL throws or getRobotsParser answers from the cache; an
\* expired entry is deleted by the lookup
isUrlAllowedCall(c, url) ==
  /\ calls[c].pc = "idle"
  /\ \A b \in 1..MaxCalls : b < c => calls[b].pc # "idle"
  /\ LET urlObj == ParseUrl(url)
         domain == urlObj.hostname
         lookup == getCachedRobotsParser(robotsCache[domain], clock.now)
         call == [IdleCall EXCEPT !.url = url]
     IN  IF ~urlObj.ok
         THEN /\ calls' = [calls EXCEPT ![c] =
                             [call EXCEPT !.pc = "done", !.answer = TRUE]]
              /\ robotsCache' = robotsCache
         ELSE IF lookup.shouldFetch
         THEN /\ calls' = [calls EXCEPT ![c] =
                             [call EXCEPT !.pc = "fetching", !.fetched = TRUE]]
              /\ robotsCache' = [robotsCache EXCEPT ![domain] = NoEntry]
         ELSE /\ calls' = [calls EXCEPT ![c] =
                             [call EXCEPT !.pc = "done", !.parser = lookup.parser,
                                !.answer = isUrlAllowed(url, robotsCache[domain])]]
              /\ robotsCache' = robotsCache
  /\ UNCHANGED <<robotsFrame, clock>>

\* the robots.txt fetch of a call settles: setCachedRobotsParser records the
\* parser or the null, and isUrlAllowed evaluates the URL
robotsFetchSettled(c) ==
  /\ calls[c].pc = "fetching"
  /\ \E outcome \in FetchOutcomes :
       LET domain == ParseUrl(calls[c].url).hostname
           entry == setCachedRobotsParser(RobotsFetch(domain, outcome), clock.now)
       IN  /\ robotsCache' = [robotsCache EXCEPT ![domain] = entry]
           /\ calls' = [calls EXCEPT ![c] =
                          [calls[c] EXCEPT !.pc = "done", !.outcome = outcome,
                             !.parser = entry.data,
                             !.answer = isUrlAllowed(calls[c].url, entry)]]
  /\ UNCHANGED <<robotsFrame, clock>>

NextRobots ==
  \/ Tick
  \/ \E c \in 1..MaxCalls, url \in CheckedUrls : isUrlAllowedCall(c, url)
  \/ \E c \in 1..MaxCalls : robotsFetchSettled(c)

SpecRobots == InitRobots /\ [][NextRobots]_vars


(***************************************************************************)
(* The generate handler on its own: a request body with the pages of a      *)
(* crawl (results) or with prepared requests (the legacy format); one call  *)
(* of the description service per page, each of which may fail.             *)
(***************************************************************************)
\* the largest number of pages in a request body
MaxRequests == 6
\* const batchSize = 5 of the legacy format
legacyBatchSize == 5

FailedText == Text("Failed to generate description", 0)
NoDescriptionText == Text("No description available", 0)
IsTruthy(text) == text.kind # "empty"

\* the pages of a body: page k has the URL k, or the URL of the first page
\* when the second page repeats it, and carries a description of its own
\* unless it is the blank one
BodyPages(n, blank, dup) ==
  [k \in 1..n |->
     [url |-> IF dup /\ k = 2 THEN 1 ELSE k,
      description |-> IF k = blank THEN NoText ELSE Text("existing", k)]]

InitGenerate ==
  /\ handler = "GET" /\ reqUrl = Root /\ maxPages = MAX_SAFE_INTEGER
  /\ site = SiteSingle
  /\ IdleCrawl
  /\ canon = CanonIdle
  /\ clock = [now |-> 0, ticks |-> 0]
  /\ calls = <<>>
  /\ gen \in { [GenIdle EXCEPT !.pc = "request", !.key = key,
                  !.body = [kind |-> kind, pages |-> BodyPages(n, blank, dup)]] :
                 kind \in {"crawlerForm", "legacy", "invalid"},
                 key \in BOOLEAN, n \in 0..MaxRequests,
                 blank \in 0..MaxRequests, dup \in BOOLEAN }

generateFrame == <<handler, reqUrl, maxPages, site, served, hpc, disconnected,
                   stream, cpc, urlQueue, discovered, results, stats, task,
                   robotsCache, fetches, batches, abortedAt, canon, clock,
                   calls>>

\* the calls of the legacy format that are sent together: requests.slice(i,
\* i + batchSize)
LegacyBatch(i, n) == { k \in 1..n : k > i /\ k <= i + legacyBatchSize }

\* POST of the generate handler up to its first await on the description
\* service: the format is told apart, the input and the API key are checked
\* and the calls are sent, all of them for a crawl, one batch for the legacy
\* format
generatePOST ==
  /\ gen.pc = "request"
  /\ LET n == Len(gen.body.pages) IN
     gen' =
       CASE gen.body.kind = "invalid" ->
              [gen EXCEPT !.pc = "responded", !.status = 400]
         [] gen.body.kind # "invalid" /\ ~gen.key ->
              [gen EXCEPT !.pc = "responded", !.status = 500]
         [] gen.body.kind = "crawlerForm" /\ gen.key ->
              [gen EXCEPT !.pc = "describing",
                          !.settledResults = [k \in 1..n |-> "pending"]]
         [] gen.body.kind = "legacy" /\ gen.key ->
              IF n = 0
              THEN [gen EXCEPT !.pc = "responded", !.status = 200]
              ELSE [gen EXCEPT !.pc = "batching",
                     !.settledResults =
                        [k \in 1..n |-> IF k \in LegacyBatch(0, n)
                                        THEN "pending" ELSE "unsent"]]
  /\ UNCHANGED generateFrame

\* openai.chat.completions.create for page k settles: it rejects, or it
\* answers with a text or with an empty content
descriptionCallSettled(k) ==
  /\ gen.pc \in {"describing", "batching"}
  /\ k \in DOMAIN gen.settledResults /\ gen.settledResults[k] = "pending"
  /\ \E outcome \in {"rejected", "text", "noContent"} :
       gen' = [gen EXCEPT !.settledResults[k] = outcome]
  /\ UNCHANGED generateFrame

\* a fallback that ignores the description the page came with
fallbackDescription_AlwaysFailedText(original) == FailedText
\* originalDescription || "Failed to generate description"
fallbackDescription(original) ==
  IF IsTruthy(original) THEN original ELSE FailedText

\* descriptions[url] = text on an object that keeps the order of insertion
RECURSIVE PutDescription(_, _, _)
PutDescription(d, url, text) ==
  IF d = <<>> THEN <<[url |-> url, text |-> text]>>
  ELSE IF Head(d).url = url THEN <<[url |-> url, text |-> text]>> \o Tail(d)
  ELSE <<Head(d)>> \o PutDescription(Tail(d), url, text)
\* descriptions[url]
RECURSIVE GetDescription(_, _)
GetDescription(d, url) ==
  IF d = <<>> THEN NoText
  ELSE IF Head(d).url = url THEN Head(d).text
  ELSE GetDescription(Tail(d), url)

\* settledResults.forEach of the crawl format, from page k on
RECURSIVE ProcessSettled(_, _, _, _)
ProcessSettled(d, pages, settled, k) ==
  IF k > Len(pages) THEN d
  ELSE LET text == IF settled[k] = "text" THEN Text("generated", k)
                   ELSE IF settled[k] = "noContent" THEN NoDescriptionText
                   ELSE fallbackDescription(pages[k].description)
       IN  ProcessSettled(PutDescription(d, pages[k].url, text), pages,
                          settled, k + 1)

\* Promise.allSettled has resolved: the descriptions are filled in and the
\* call for the custom instruction is sent
descriptionsSettled ==
  /\ gen.pc = "describing"
  /\ \A k \in DOMAIN gen.settledResults : gen.settledResults[k] # "pending"
  /\ gen' = [gen EXCEPT !.pc = "instruction",
               !.descriptions = ProcessSettled(<<>>, gen.body.pages,
                                               gen.settledResults, 1)]
  /\ UNCHANGED generateFrame

\* the line of generateMarkdown for a page
MarkdownLine(result, d) ==
  [url |-> result.url,
   description |-> IF IsTruthy(GetDescription(d, result.url))
                   THEN GetDescription(d, result.url)
                   ELSE IF IsTruthy(result.description) THEN result.description
                   ELSE NoDescriptionText]

\* generateCustomInstruction has returned, with the text of the service or
\* with the default instruction of its catch; the markdown and the response
\* are built
customInstructionSettled ==
  /\ gen.pc = "instruction"
  /\ \E outcome \in {"rejected", "text"} :
       gen' = [gen EXCEPT
                 !.pc = "responded", !.status = 200,
                 !.customInstruction = IF outcome = "text" THEN "generated"
                                       ELSE "default",
                 !.processed = Len(gen.descriptions),
                 !.responses = [j \in 1..Len(gen.descriptions) |->
                                  [output_text |-> gen.descriptions[j].text,
                                   url |-> gen.descriptions[j].url]],
                 !.markdown = [k \in 1..Len(gen.body.pages) |->
                                 MarkdownLine(gen.body.pages[k], gen.descriptions)]]
  /\ UNCHANGED generateFrame

\* what the try/catch around a call of the legacy format returns
LegacyResult(request, settled, k) ==
  [output_text |-> IF settled = "text" THEN Text("generated", k)
                   ELSE IF settled = "noContent" THEN NoText
                   ELSE fallbackDescription(request.description),
   url |-> request.url]

\* Promise.all of a legacy batch has resolved: its results are pushed, and
\* the next batch is sent or the response is built
legacyBatchSettled ==
  /\ gen.pc = "batching"
  /\ \A k \in DOMAIN gen.settledResults : gen.settledResults[k] # "pending"
  /\ LET n == Len(gen.body.pages)
         i == gen.processed
         last == Min({i + legacyBatchSize, n})
         batchResults == [j \in 1..(last - i) |->
                            LegacyResult(gen.body.pages[i + j],
                                         gen.settledResults[i + j], i + j)]
     IN  gen' = [gen EXCEPT
                   !.responses = @ \o batchResults,
                   !.processed = last,
                   !.settledResults =
                      [k \in 1..n |-> IF k \in LegacyBatch(last, n)
                                      THEN "pending" ELSE @[k]],
                   !.pc = IF last < n THEN "batching" ELSE "responded",
                   !.status = IF last < n THEN 0 ELSE 200]
  /\ UNCHANGED generateFrame

NextGenerate ==
  \/ generatePOST
  \/ \E k \in 1..MaxRequests : descriptionCallSettled(k)
  \/ descriptionsSettled
  \/ customInstructionSettled
  \/ legacyBatchSettled

SpecGenerate == InitGenerate /\ [][NextGenerate]_vars


(***************************************************************************)
(* Properties.                                                               *)
(***************************************************************************)
Frames(type, url) == CopiesIn(<<type, url>>, stream.written)
InFlight == { i \in Slots : task[i].pc \notin {"idle", "robots", "done"} }
RECURSIVE SumOver(_, _)
SumOver(f, S) ==
  IF S = {} THEN 0
  ELSE LET x == CHOOSE y \in S : TRUE IN f[x] + SumOver(f, S \ {x})
TotalFetches == SumOver(fetches, Targets)
\* the parser in the cache says false for the URL
Disallowed(u) ==
  /\ robotsCache[HostOf(u)].data # NoParser
  /\ parserIsAllowed(robotsCache[HostOf(u)].data, u) = "false"

\* C1: in every state of a job, under every interleaving of the
\* crawlSinglePage tasks of a batch, 0 <= stats.attempted <= budget, and so
\* do the counters carried by every progress, result and complete frame
C1_AttemptedWithinBudget ==
  /\ 0 <= stats.attempted /\ stats.attempted <= maxPages
  /\ stream.last.type \in {"progress", "result", "complete"}
       => 0 <= stream.last.attempted /\ stream.last.attempted <= maxPages
\* two tasks of one batch are fetching and the budget is used up
C1_Witness ==
  /\ cpc = "batch" /\ Cardinality(InFlight) >= 2
  /\ stats.attempted = maxPages

\* C2: every frame that carries the counters has successful <= attempted,
\* whatever the outcome of the page fetches
C2_SuccessfulWithinAttempted ==
  stream.last.type \in {"progress", "complete"}
    => stream.last.successful <= stream.last.attempted

\* C3: within a job no URL is fetched twice and no URL gets two result
\* frames
C3_NoUrlFetchedTwice ==
  \A u \in Targets : fetches[u] <= 1 /\ Frames("result", u) <= 1

\* C4: a URL the robots parser disallows is never fetched, and the call for
\* it ends without a change of stats.attempted
C4_DisallowedNeverFetched ==
  /\ [](\A u \in Targets : Disallowed(u) => fetches[u] = 0)
  /\ [][\A i \in Slots :
          (/\ task[i].pc = "robots"
           /\ Disallowed(task[i].normalizedUrl)
           /\ task'[i].pc # "robots")
          => (stats' = stats /\ fetches' = fetches /\ task'[i].returned = "null")]_vars
\* the call for a disallowed start URL has returned
C4_Witness ==
  \E i \in Slots :
    /\ task[i].pc = "done" /\ Disallowed(task[i].normalizedUrl)
    /\ fetches[task[i].normalizedUrl] = 0 /\ stats.attempted = 0

\* C5: when the signal fires while a batch is in flight, no batch is
\* dequeued afterwards and the stream ends with a complete frame of status
\* canceled
C5_CancelEndsWithCanceledComplete ==
  abortedAt.inBatch =>
    /\ batches = abortedAt.batches
    /\ hpc = "closed" =>
         stream.last.type = "complete" /\ stream.last.status = "canceled"

C7_TerminalSignal ==
  (hpc = "closed" /\ ~disconnected) => Frames("complete", NoUrl) >= 1

\* C8: the page fetches started during a job, failed ones included, are at
\* most as many as the budget
C8_FetchesWithinBudget == TotalFetches <= maxPages
\* a finite budget above one is used up by fetches, one of which failed and
\* one of which gave a result
C8_Witness ==
  /\ 1 < maxPages /\ maxPages < MAX_SAFE_INTEGER /\ TotalFetches = maxPages
  /\ stats.successful >= 1
  /\ \E u \in Targets : Frames("error", u) >= 1

\* C9: a URL that serves a page on which a condition of the parking detector
\* holds gets no result frame and is in no result
C9_ParkedNeverResult ==
  \A u \in Targets :
    (served[u] # Unset /\ isDomainParkingRendered(served[u], startHostname))
      => /\ Frames("result", u) = 0
         /\ \A n \in 1..Len(results) : results[n].url # u

\* C10: after the Puppeteer strategy has detected parking, the fallback
\* fetch of that call is not started
C10_ParkingIsTerminal ==
  \A i \in Slots :
    task[i].puppeteerError = "parking"
      => task[i].pc \notin {"fallback", "fbSentProgress", "fbSentResult"}

\* the URL serves a page whose body text holds a parking phrase
BodyParked(u) == served[u] # Unset /\ Lower(served[u].body) \in BodyPhrases

\* C11: a URL that serves a body text with a parking phrase gets no result
\* frame and is in no result and not in crawledUrls of the complete frame;
\* the call for it that ends in the outer catch takes its attempt back and,
\* with the caller connected, has written an error frame for the URL
C11_BodyParkedIsFailedAttempt ==
  /\ [](\A u \in Targets : BodyParked(u) =>
          /\ Frames("result", u) = 0
          /\ \A n \in 1..Len(results) : results[n].url # u
          /\ stream.last.type = "complete" =>
               \A n \in 1..Len(stream.last.crawledUrls) :
                 stream.last.crawledUrls[n] # u)
  /\ [](\A i \in Slots :
          (/\ task[i].pc \in {"errSent", "done"} /\ ~disconnected
           /\ fetches[task[i].normalizedUrl] > 0
           /\ BodyParked(task[i].normalizedUrl))
          => /\ Frames("error", task[i].normalizedUrl) >= 1
             /\ task[i].returned # "result")
  /\ [][\A i \in Slots :
          (/\ task[i].pc = "fallback" /\ task'[i].pc # "fallback"
           /\ BodyParked(task[i].normalizedUrl)')
          => stats'.attempted = stats.attempted - 1]_vars
\* both strategies have seen the parked body: the Puppeteer strategy threw
\* the parking error and the outer catch has sent the error event
C11_Witness ==
  \E i \in Slots :
    /\ task[i].pc = "errSent" /\ task[i].puppeteerError = "parking"
    /\ BodyParked(task[i].normalizedUrl) /\ ~disconnected
    /\ Frames("error", task[i].normalizedUrl) = 1
    /\ stats.attempted = 0

\* the errors of the Puppeteer strategy that are not a parking detection and
\* come before any result of that strategy
RenderFailures == {"launch", "render", "noContent"}

\* C12: a call whose Puppeteer strategy failed without a parking detection
\* and whose fallback found content counts one success, sends one result
\* frame (the caller being connected) and returns one result, and that
\* result names the fallback as the strategy that obtained it
C12_FallbackResultIdentified ==
  /\ [](\A i \in Slots :
          (task[i].pc = "fbSentResult" /\ task[i].puppeteerError \in RenderFailures)
          => /\ task[i].result.url = task[i].normalizedUrl
             /\ "fetchStrategy" \in DOMAIN task[i].result
             /\ task[i].result.fetchStrategy = "fallback")
  /\ [][\A i \in Slots :
          (/\ task[i].puppeteerError \in RenderFailures /\ task'[i].pc # task[i].pc
           /\ ~disconnected)
          => /\ (task[i].pc = "fallback" /\ task'[i].pc = "fbSentProgress")
                  => stats'.successful = stats.successful + 1
             /\ task[i].pc = "fbSentProgress"
                  => /\ stats' = stats
                     /\ Frames("result", task[i].normalizedUrl)'
                          = Frames("result", task[i].normalizedUrl) + 1
             /\ task[i].pc = "fbSentResult"
                  => stats' = stats /\ stream' = stream
                       /\ task'[i].returned = "result"]_vars

\* the canonical start URL of the job
normalizedStartUrl == enhancedNormalizeUrl(reqUrl)

\* C13: with a budget of one, a job whose start page gave a result has
\* written exactly one result frame, its complete frame carries
\* attempted = 1, and the frontier and the discovered set never hold anything
\* but the start URL
C13_BudgetOne ==
  (maxPages = 1 /\ cpc \in {"loop", "batch", "returned"}) =>
    /\ \A u \in Targets : Frames("result", u) <= 1
    /\ (stream.last.type = "complete" /\ Frames("result", normalizedStartUrl) >= 1)
         => stream.last.attempted = 1
    /\ discovered = {normalizedStartUrl}
    /\ \A n \in 1..Len(urlQueue) : urlQueue[n] = normalizedStartUrl

\* the URL object of a string, the scheme-less string taken with https://
Parsed(u) == ParseUrl(IF HasScheme(u) THEN u ELSE <<"https://">> \o u)
Keyed == canon.pc \in {"keyed", "admitted"}
\* v is u with one more slash at the end of its path
SlashTwin(u, v) ==
  /\ Parsed(u).ok /\ Parsed(v).ok
  /\ TakeUntil(v, StopTokens) = TakeUntil(u, StopTokens) \o <<"/">>
  /\ DropUntil(v, StopTokens) = DropUntil(u, StopTokens)
\* u and v differ in parameters of the deny-list only
TrackingTwin(u, v) ==
  /\ Parsed(u).ok /\ Parsed(v).ok
  /\ Parsed(u).origin = Parsed(v).origin
  /\ Parsed(u).pathname = Parsed(v).pathname /\ Parsed(u).hash = Parsed(v).hash
  /\ Parsed(u).search # Parsed(v).search
  /\ DeleteParams(Parsed(u).search) = DeleteParams(Parsed(v).search)
\* u and v differ in a parameter that is not on the deny-list
ParamTwin(u, v) ==
  /\ Parsed(u).ok /\ Parsed(v).ok
  /\ Parsed(u).origin = Parsed(v).origin
  /\ Parsed(u).pathname = Parsed(v).pathname /\ Parsed(u).hash = Parsed(v).hash
  /\ DeleteParams(Parsed(u).search) # DeleteParams(Parsed(v).search)
\* origin/#/p
HashRoute(u) ==
  /\ Parsed(u).ok /\ Parsed(u).pathname = <<"/">> /\ Parsed(u).search = <<>>
  /\ Parsed(u).hash # <<>> /\ Head(Parsed(u).hash) = "/"

\* C14: the key of a key is the key: enhancedNormalizeUrl applied to its own
\* result gives that result, for every href
C14_CanonicalizeIdempotent ==
  Keyed => \A n \in 1..2 : canon.rekeys[n] = canon.keys[n]

\* C15: two hrefs of a page that differ only in a tracking parameter or only
\* in a slash at the end of the path have the same key, and when both are
\* links of the site the frontier gets one entry for them
C15_TwinsShareKey ==
  LET u == canon.hrefs[1]
      v == canon.hrefs[2]
  IN  (Keyed /\ (SlashTwin(u, v) \/ TrackingTwin(u, v))) =>
        /\ canon.keys[1] = canon.keys[2]
        /\ (canon.pc = "admitted" /\ HasScheme(u) /\ HasScheme(v))
             => Len(canon.queue) = 1

\* C16: the key of origin/#/p is the key of origin/p, and two hash-routes of
\* one origin with different paths have different keys
C16_HashRouteRewritten ==
  LET u == canon.hrefs[1]
      v == canon.hrefs[2]
  IN  (Keyed /\ HashRoute(u)) =>
        /\ v = Parsed(u).origin \o Parsed(u).hash => canon.keys[1] = canon.keys[2]
        /\ (/\ HashRoute(v) /\ Parsed(v).origin = Parsed(u).origin
            /\ Parsed(v).hash # Parsed(u).hash) => canon.keys[1] # canon.keys[2]

\* C17: the key of a URL without a fragment keeps the parameters that are
\* not on the deny-list, so two hrefs that differ in such a parameter have
\* different keys and both get a frontier entry
C17_OtherParamsKept ==
  LET u == canon.hrefs[1]
      v == canon.hrefs[2]
  IN  /\ (Keyed /\ Parsed(u).ok /\ Parsed(u).hash = <<>>)
           => ParseUrl(canon.keys[1]).search = DeleteParams(Parsed(u).search)
      /\ (Keyed /\ ParamTwin(u, v) /\ Parsed(u).hash = <<>>) =>
           /\ canon.keys[1] # canon.keys[2]
           /\ (canon.pc = "admitted" /\ HasScheme(u) /\ HasScheme(v))
                => Len(canon.queue) = 2

\* C18: for a string that new URL() rejects, also after https:// was put in
\* front of it, enhancedNormalizeUrl returns the string it was given
C18_UnparsableReturnedUnchanged ==
  Keyed => \A n \in 1..2 :
             ~Parsed(canon.hrefs[n]).ok => canon.keys[n] = canon.hrefs[n]
\* a scheme-less string that cannot be parsed has been canonicalized next to
\* a URL that can
C18_Witness ==
  /\ Keyed /\ canon.hrefs[1] = Malformed /\ canon.keys[1] = Malformed
  /\ Parsed(canon.hrefs[2]).ok /\ canon.keys[2] # canon.hrefs[2]

DomainOf(c) == ParseUrl(calls[c].url).hostname
\* the cache holds the record of a robots.txt fetch for the domain, made at
\* most 24 hours ago
LiveEntry(domain) ==
  /\ robotsCache[domain] # NoEntry
  /\ clock.now <= robotsCache[domain].timestamp + CACHE_TTL

\* C19: a call of isUrlAllowed starts no robots.txt fetch for a domain while
\* the cache holds the record of a fetch for it that is at most 24 hours
\* old, and answers true from the record of a failed fetch
C19_NoRefetchWithinTTL ==
  [][\A c \in DOMAIN calls :
       (/\ calls[c].pc = "idle" /\ calls'[c].pc # "idle"
        /\ ParseUrl(calls'[c].url).ok
        /\ LiveEntry(ParseUrl(calls'[c].url).hostname))
       => /\ ~calls'[c].fetched
          /\ calls'[c].pc = "done"
          /\ robotsCache' = robotsCache
          /\ robotsCache[ParseUrl(calls'[c].url).hostname].data = NoParser
               => calls'[c].answer = TRUE]_vars
\* a fetch was recorded, and a call made exactly 24 hours later has been
\* answered from the record
C19_Witness ==
  \E b, c \in DOMAIN calls :
    /\ calls[b].pc = "done" /\ calls[b].fetched
    /\ calls[c].pc = "done" /\ ~calls[c].fetched /\ ParseUrl(calls[c].url).ok
    /\ DomainOf(b) = DomainOf(c)
    /\ clock.now = robotsCache[DomainOf(c)].timestamp + CACHE_TTL

\* C20: isUrlAllowed returns false only if the policy it got from a
\* successful fetch says false for the URL; it returns true for a URL that
\* cannot be parsed, after a failed fetch or a response that is not ok, and
\* when the policy gives undefined
C20_FailOpen ==
  \A c \in 1..Len(calls) :
    calls[c].pc = "done" =>
      /\ calls[c].answer = FALSE =>
           /\ ParseUrl(calls[c].url).ok
           /\ calls[c].parser # NoParser
           /\ calls[c].outcome \notin {"fail", "notOk"}
           /\ parserIsAllowed(calls[c].parser, calls[c].url) = "false"
      /\ ~ParseUrl(calls[c].url).ok => calls[c].answer = TRUE
      /\ calls[c].outcome \in {"fail", "notOk"} => calls[c].answer = TRUE
      /\ (/\ calls[c].parser # NoParser
          /\ parserIsAllowed(calls[c].parser, calls[c].url) = "undefined")
           => calls[c].answer = TRUE
\* calls have returned true after a failed fetch, true for an undefined
\* evaluation and false for a disallowed URL
C20_Witness ==
  \E a, b, c \in 1..Len(calls) :
    /\ calls[a].pc = "done" /\ calls[a].outcome = "notOk" /\ calls[a].answer = TRUE
    /\ calls[b].pc = "done" /\ calls[b].parser # NoParser
    /\ parserIsAllowed(calls[b].parser, calls[b].url) = "undefined"
    /\ calls[b].answer = TRUE
    /\ calls[c].pc = "done" /\ calls[c].answer = FALSE


Fetchable(u) ==
  /\ u \notin site.faulty
  /\ site.kinds[u] = {Plain}
  /\ ~Disallowed(u)
\* the keys of the valid links of a page
LinkedKeys(u) ==
  LET validLinks == validLinksOf(SiteLinks(u), startHostname)
  IN  { enhancedNormalizeUrl(validLinks[n]) : n \in 1..Len(validLinks) } \cap Targets
\* the pages that are reachable from S over links of fetchable pages
RECURSIVE ReachableFrom(_)
ReachableFrom(S) ==
  LET T == S \cup UNION { LinkedKeys(u) : u \in { v \in S : Fetchable(v) } }
  IN  IF T = S THEN S ELSE ReachableFrom(T)
FetchablePages == { u \in ReachableFrom({normalizedStartUrl}) : Fetchable(u) }

\* C22: without cancellation, the step in which a call ends in the outer
\* catch writes one error event for its URL and takes the attempt back, and
\* a job that has ended with success on a site with at least budget fetchable
\* pages reachable from the start URL has ended with successful = budget
C22_FailureConsumesNoBudget ==
  [][ /\ \A i \in Slots :
          (~disconnected /\ task[i].pc \in {"fallback", "fbSentProgress"}
             /\ task'[i].pc = "errSent") =>
            /\ Frames("error", task[i].normalizedUrl)' =
                  Frames("error", task[i].normalizedUrl) + 1
            /\ stats'.attempted = stats.attempted - 1
      /\ (cpc = "returned" /\ ~disconnected /\ stream.last.status = "success"
            /\ Cardinality(FetchablePages) >= maxPages) =>
           stream.last.successful = maxPages ]_vars


\* C23: a call whose fetch, by either strategy, was in progress when the
\* signal fired returns no result to the batch and writes no result event,
\* and when every call of the batch was in that position the batch settles
\* with stats.attempted lowered by one for each of them
C23_CancelMidFetch ==
  (abortedAt.fired /\ cpc = "batch") =>
    /\ \A i \in abortedAt.fetching :
          /\ task[i].returned # "result"
          /\ task[i].pc \notin {"sentResult", "fbSentResult"}
    /\ (abortedAt.fetching = Active /\ batchSettled) =>
          stats.attempted = abortedAt.attempted - Cardinality(abortedAt.fetching)


C25_JobLevelErrorRejected ==
  /\ (hpc # "request" /\ ~PostUrlValid(reqUrl)) =>
        /\ hpc = "rejected" /\ cpc = "idle"
        /\ stream.written = EmptyBag
  /\ (hpc # "request" /\ cpc = "idle") =>
        /\ hpc = "rejected"
        /\ stream.written = EmptyBag


\* a write to the stream has rejected: crawlSite or a crawlSinglePage call
\* was thrown out of a sendUpdate
WriteRejected ==
  \/ cpc = "threw"
  \/ \E i \in Slots : task[i].puppeteerError = "sendUpdate"

\* C26: in both handlers, once the client has disconnected the signal
\* crawlSite reads is aborted, once a write to the stream has rejected it is
\* aborted too, and no batch is started after the disconnect
C26_TransportFailureSetsSignal ==
  [][ /\ (disconnected /\ hpc = "streaming") => aborted
      /\ WriteRejected => aborted
      /\ disconnected => ~(cpc = "loop" /\ cpc' = "batch") ]_vars


\* the page is the only one of the body with its URL
OwnUrl(k) ==
  \A j \in 1..Len(gen.body.pages) :
    gen.body.pages[j].url = gen.body.pages[k].url => j = k
\* the description the response carries for page k: its markdown line and
\* its entry of responses for a crawl, its entry of responses for the
\* legacy format
DescriptionInResponse(k) ==
  IF gen.body.kind = "legacy" THEN {gen.responses[k].output_text}
  ELSE {gen.markdown[k].description}
         \cup { gen.responses[j].output_text :
                  j \in { i \in 1..Len(gen.responses) :
                            gen.responses[i].url = gen.body.pages[k].url } }

C28_BatchIsBarrier ==
  [][ ( \/ urlQueue' # urlQueue
        \/ discovered' # discovered
        \/ results' # results
        \/ batches' # batches
        \/ (stream'.written # stream.written
              /\ stream'.last.status = "extracting") )
      => \A i \in Slots : task[i].pc \in {"idle", "done"} ]_vars

\* the third batch has been dequeued after a batch of three in which one
\* call went through the fallback to its error event and another gave a
\* result
C28_Witness ==
  /\ cpc = "batch" /\ batches = 3 /\ site = SiteFour
  /\ task[1].url = PageD /\ task[1].pc = "robots"
  /\ Frames("error", PageA) = 1 /\ Frames("result", PageB) = 1
  /\ stream.last.type = "progress"


\* C29: the queue changes only by losing entries at its head or by gaining
\* entries at its tail; a step that dequeues a batch takes the first
\* min(3, length of the queue, budget - attempted) entries and starts the
\* calls for them in that order; and at most 3 page fetches are in flight
C29_FrontierIsFifo ==
  [][ /\ urlQueue' # urlQueue =>
            IF batches' # batches
            THEN LET n == Min({3, Len(urlQueue), maxPages - stats.attempted})
                 IN  /\ urlQueue' = SubSeq(urlQueue, n + 1, Len(urlQueue))
                     /\ cpc' = "batch" =>
                           \A k \in Slots :
                             IF k <= n THEN task'[k].url = urlQueue[k]
                             ELSE task'[k] = IdleTask
            ELSE /\ Len(urlQueue') > Len(urlQueue)
                 /\ SubSeq(urlQueue', 1, Len(urlQueue)) = urlQueue
      /\ batches' # batches => urlQueue' # urlQueue
      /\ Cardinality(InFlight') <= 3 ]_vars

\* a queue of four entries has lost its first three to a batch whose calls
\* are all rendering, and the fourth entry is still queued
C29_Witness ==
  /\ cpc = "batch" /\ batches = 2
  /\ urlQueue = <<PageD>>
  /\ task[1].url = PageA /\ task[2].url = PageB /\ task[3].url = PageC
  /\ \A i \in Slots : task[i].pc = "render"


\* C30: the discovered set never has more than max(budget, 1) entries, and
\* a step that appends links to the frontier starts in a state with
\* attempted < budget and |discovered| < budget and appends no more links
\* than the discovered set has room for
C30_ExpansionStopsAtBudget ==
  [][ /\ Cardinality(discovered') <= (IF maxPages > 1 THEN maxPages ELSE 1)
      /\ (cpc = "batch" /\ Len(urlQueue') > Len(urlQueue)) =>
            /\ Cardinality(discovered) < maxPages
            /\ stats.attempted < maxPages
            /\ Len(urlQueue') - Len(urlQueue) <= maxPages - Cardinality(discovered)
      /\ (cpc = "batch" /\ discovered' # discovered) =>
            Len(urlQueue') - Len(urlQueue) =
              Cardinality(discovered') - Cardinality(discovered) ]_vars

\* the expansion after the start page stopped at a full discovered set with
\* two of its four links left out
C30_Witness ==
  /\ cpc = "loop" /\ batches = 1 /\ site = SiteFour /\ maxPages = 3
  /\ urlQueue = <<PageA, PageB>>
  /\ discovered = {Root, PageA, PageB}


\* C31: no step of a job takes a URL out of the discovered set, and in
\* every state every entry of the frontier is in the discovered set and no
\* URL is in the frontier twice
C31_DiscoveredGrowsFrontierWithin ==
  [][ /\ discovered \subseteq discovered'
      /\ \A k \in 1..Len(urlQueue') : urlQueue'[k] \in discovered'
      /\ \A j, k \in 1..Len(urlQueue') :
            urlQueue'[j] = urlQueue'[k] => j = k ]_vars

\* the start page carried two hrefs with the same key and budget was left:
\* the key is in the frontier once, and the discovered set also holds the
\* start URL, which has left the frontier
C31_Witness ==
  /\ site = SiteTracking /\ maxPages = 3
  /\ cpc = "loop" /\ batches = 1
  /\ urlQueue = <<PageA>>
  /\ discovered = {Root, PageA}


\* C32: every URL that has entered the frontier, which the discovered set
\* keeps, has the start hostname and a path whose last segment has no
\* extension of the skip list
C32_FrontierStaysOnSite ==
  \A u \in discovered :
    /\ HostOf(u) = startHostname
    /\ LET pathname == ParseUrl(u).pathname
       IN  pathname[Len(pathname)] \notin AssetSegments


\* C33: a call of isUrlAllowed that finds an entry for its domain starts a
\* robots.txt fetch and deletes the entry when the entry is more than 24
\* hours old, whatever the entry recorded, and otherwise, also at an age of
\* exactly 24 hours, returns what the entry holds and leaves the cache alone
C33_ExpiryStrictlyAfterTTL ==
  [][\A c \in DOMAIN calls :
       LET domain == ParseUrl(calls'[c].url).hostname
           entry == robotsCache[domain]
       IN  (/\ calls[c].pc = "idle" /\ calls'[c].pc # "idle"
            /\ ParseUrl(calls'[c].url).ok
            /\ entry # NoEntry)
           => IF clock.now - entry.timestamp > 86400000
              THEN /\ calls'[c].pc = "fetching" /\ calls'[c].fetched
                   /\ robotsCache'[domain] = NoEntry
              ELSE /\ calls'[c].pc = "done" /\ ~calls'[c].fetched
                   /\ calls'[c].parser = entry.data
                   /\ robotsCache' = robotsCache]_vars

\* the fetch of the first call failed, the second call was answered from
\* that record, and the third call, more than 24 hours after the record was
\* made, has deleted it and is fetching robots.txt again
C33_Witness ==
  /\ Len(calls) >= 3
  /\ calls[1].pc = "done" /\ calls[1].fetched /\ calls[1].outcome = "fail"
  /\ calls[2].pc = "done" /\ ~calls[2].fetched /\ ParseUrl(calls[2].url).ok
  /\ calls[3].pc = "fetching"
  /\ DomainOf(1) = DomainOf(2) /\ DomainOf(2) = DomainOf(3)
  /\ robotsCache[DomainOf(3)] = NoEntry
  /\ clock.now > CACHE_TTL


\* C34: a call that stands before its robots and budget checks always finds
\* stats.attempted below stats.total, and the step it takes for a URL that
\* robots allows, with the signal not aborted, counts the attempt and starts
\* the fetch
C34_StrictCheckNeverFires ==
  [][\A i \in Slots :
       (cpc = "batch" /\ task[i].pc = "robots") =>
         /\ stats.attempted < stats.total
         /\ (/\ task'[i].pc # "robots" /\ ~aborted
             /\ isUrlAllowed(task[i].normalizedUrl,
                             robotsCache[HostOf(task[i].normalizedUrl)]))
            => /\ task'[i].pc = "render"
               /\ stats'.attempted = stats.attempted + 1
               /\ fetches'[task[i].normalizedUrl] =
                     fetches[task[i].normalizedUrl] + 1]_vars

\* the last call of a batch of two has passed the check with one attempt
\* left and has used up the budget of three
C34_Witness ==
  /\ cpc = "batch" /\ maxPages = 3 /\ stats.attempted = 3
  /\ task[1].pc = "render" /\ task[2].pc = "render" /\ task[3].pc = "idle"


\* how often the URL is in the sequence of URLs
RECURSIVE CountIn(_, _)
CountIn(u, urls) ==
  IF urls = <<>> THEN 0
  ELSE (IF Head(urls) = u THEN 1 ELSE 0) + CountIn(u, Tail(urls))

\* C35: when crawlSite has returned with the caller connected, the complete
\* event lists every URL as often as a result event was written for it, no
\* URL more than once, and its successful counter is the number of URLs it
\* lists
C35_CompleteMatchesStream ==
  (cpc = "returned" /\ ~disconnected /\ stream.last.type = "complete") =>
    /\ \A u \in Targets :
          /\ CountIn(u, stream.last.crawledUrls) = Frames("result", u)
          /\ Frames("result", u) <= 1
    /\ stream.last.successful = Len(stream.last.crawledUrls)


\* C36: with the caller connected, whenever no crawlSinglePage call is
\* running, between two batches and when crawlSite has returned,
\* stats.attempted equals stats.successful, and so do the counters of the
\* complete event
C36_AttemptedIsSuccessfulAtRest ==
  (~disconnected /\ cpc \in {"loop", "returned"}) =>
    /\ stats.attempted = stats.successful
    /\ stream.last.type = "complete" =>
          stream.last.attempted = stream.last.successful


\* the isUrlAllowed calls that wait for their own fetch of the robots.txt of
\* the domain
FetchesInFlight(domain) ==
  {c \in DOMAIN calls : calls[c].pc = "fetching" /\ DomainOf(c) = domain}

\* C37: at any time at most one robots.txt fetch is in flight for a domain;
\* concurrent isUrlAllowed calls that find no live entry for the domain do
\* not each start a fetch
C37_OneFetchInFlightPerDomain ==
  \A domain \in Hosts : Cardinality(FetchesInFlight(domain)) <= 1

\* the cache holds a policy for the domain, fetched successfully and not yet
\* expired
LivePolicy(domain) ==
  /\ robotsCache[domain] # NoEntry
  /\ robotsCache[domain].data # NoParser
  /\ ~expired(clock.now - robotsCache[domain].timestamp)

\* C38: while the cache holds an unexpired policy of a successful fetch for a
\* domain, no step replaces it with the null of a failed fetch, and every
\* isUrlAllowed call that returns for a URL the policy disallows answers
\* false
C38_CachedPolicyNotDowngraded ==
  [][\A domain \in Hosts :
       LivePolicy(domain) =>
         /\ robotsCache'[domain].data # NoParser
         /\ \A c \in DOMAIN calls :
              (/\ calls[c].pc # "done" /\ calls'[c].pc = "done"
               /\ ParseUrl(calls'[c].url).ok
               /\ ParseUrl(calls'[c].url).hostname = domain
               /\ parserIsAllowed(robotsCache[domain].data, calls'[c].url) = "false")
              => calls'[c].answer = FALSE]_vars
====
